---- MODULE Spec2Model ----
(***************************************************************************)
(* A model of jenkins_perf_visualizer/visualize.js: the html escaper       *)
(* (safe), the tree flattener (getNodeList), the tick planner              *)
(* (addCssGridMarks), the colour rules (addCssColors), the chart renderer  *)
(* (renderChart) and the collapse handler (toggleCollapse).                *)
(*                                                                         *)
(* Strings that the code scans character by character (the arguments of    *)
(* safe) are sequences of one-character strings.  Class names and          *)
(* selectors, which the code only builds with template literals and        *)
(* compares as wholes, are TLA+ strings.  JavaScript numbers that are      *)
(* quotients (numTicks, tickGapPct, an interval's pct) are exact           *)
(* fractions [num, den]; a den of 0 stands for the non-finite quotient     *)
(* JavaScript yields on division by zero.                                  *)
(***************************************************************************)
EXTENDS Integers, Sequences, FiniteSets, TLC

VARIABLES
    pc,              \* position of the running script
    s,               \* safe: the argument
    escaped,         \* safe: the returned string
    taskTimeMs,      \* addCssGridMarks: the argument
    tickIntervalMs,  \* addCssGridMarks: local variable
    numTicks,        \* addCssGridMarks: local variable (a fraction)
    tickPlan,        \* addCssGridMarks: what the call produced
    builds,          \* getNodeList: the argument
    nodes,           \* getNodeList: the returned list
    data,            \* renderChart: the argument
    status,          \* renderChart: how the call ended
    title,           \* document.getElementById('title').innerHTML
    subtitle,        \* document.getElementById('subtitle').innerHTML
    perfchart,       \* the rows of document.getElementById('perfchart')
    axis,            \* the labels of the x-axis row of perfchart
    styleRules,      \* the rules inserted into document.styleSheets[0]
    toggles          \* history: the ids toggleCollapse was called with

vars == <<pc, s, escaped, taskTimeMs, tickIntervalMs, numTicks, tickPlan,
          builds, nodes, data, status, title, subtitle, perfchart, axis,
          styleRules, toggles>>

safeVars == <<s, escaped>>
tickVars == <<taskTimeMs, tickIntervalMs, numTicks, tickPlan>>
flatVars == <<builds, nodes>>
pageVars == <<data, status, title, subtitle, perfchart, axis, toggles>>
chartVars == <<pageVars, styleRules>>

\* the values of the variables of the functions a run does not call
SafeIdle == s = <<>> /\ escaped = <<>>
TickIdle ==
    /\ taskTimeMs = 0
    /\ tickIntervalMs = 0
    /\ numTicks = [num |-> 0, den |-> 1]
    /\ tickPlan = [kind |-> "none"]
FlattenIdle == builds = <<>> /\ nodes = <<>>
ChartIdle ==
    /\ data = <<>>
    /\ status = "none"
    /\ title = <<>>
    /\ subtitle = <<>>
    /\ perfchart = <<>>
    /\ axis = <<>>
    /\ styleRules = <<>>
    /\ toggles = {}

-----------------------------------------------------------------------------
(* Bounds of the model.                                                    *)

MaxLen == 3            \* longest argument of safe
MaxHalfMinutes == 130  \* longest chart duration, in half minutes
MaxNodes == 5          \* most nodes in one document's builds
MaxTime == 4           \* length of the chart, in time units
MaxIntervals == 2      \* most intervals of one node

-----------------------------------------------------------------------------
(* Fractions.                                                              *)

Frac(n, d) == [num |-> n, den |-> d]

\* a / b > k for a fraction with a positive denominator
FracGt(f, k) == f.num > k * f.den

RECURSIVE Concat(_)
Concat(ss) == IF ss = <<>> THEN <<>> ELSE Head(ss) \o Concat(Tail(ss))

RECURSIVE SumSeq(_)
SumSeq(ns) == IF ns = <<>> THEN 0 ELSE Head(ns) + SumSeq(Tail(ns))

-----------------------------------------------------------------------------
(* safe(s): five global replacements, applied one after the other.         *)

\* String.prototype.replace with a one-character global pattern: every
\* occurrence of ch in str becomes rep; the replacement is not rescanned.
RECURSIVE replace(_, _, _)
replace(str, ch, rep) ==
    IF str = <<>> THEN <<>>
    ELSE (IF Head(str) = ch THEN rep ELSE <<Head(str)>>)
         \o replace(Tail(str), ch, rep)

AmpEntity == <<"&", "a", "m", "p", ";">>
LtEntity == <<"&", "l", "t", ";">>
GtEntity == <<"&", "g", "t", ";">>
QuotEntity == <<"&", "q", "u", "o", "t", ";">>
AposEntity == <<"&", "#", "0", "3", "9", ";">>

\* The mutation: the ampersand is replaced last, after the other four
\* replacements have introduced ampersands of their own.
safeAmpLast(str) ==
    replace(replace(replace(replace(replace(str,
        "<", LtEntity), ">", GtEntity), "\"", QuotEntity), "'", AposEntity),
        "&", AmpEntity)

safe(str) ==
    replace(replace(replace(replace(replace(str,
        "&", AmpEntity), "<", LtEntity), ">", GtEntity), "\"", QuotEntity),
        "'", AposEntity)

\* The characters the arguments of safe are drawn from: the five reserved
\* ones and two that are not (";" ends an entity, so "&a;" looks like one).
SafeAlphabet == {"&", "<", ">", "\"", "'", "a", ";"}

RECURSIVE StringsUpTo(_)
StringsUpTo(n) ==
    IF n = 0 THEN {<<>>}
    ELSE LET shorter == StringsUpTo(n - 1)
         IN shorter \cup {Append(t, c) : t \in {u \in shorter : Len(u) = n - 1},
                                          c \in SafeAlphabet}

SafeInit ==
    /\ pc = "safe"
    /\ s \in StringsUpTo(MaxLen)
    /\ escaped = <<>>
    /\ TickIdle /\ FlattenIdle /\ ChartIdle

Safe ==
    /\ pc = "safe"
    /\ escaped' = safe(s)
    /\ pc' = "safe_done"
    /\ UNCHANGED s

-----------------------------------------------------------------------------
(* addCssGridMarks(taskTimeMs), one action per step of its loop.           *)

TickStepMs == 60 * 1000
MaxTicks == 20

\* The mutation: the loop tolerates one tick more.
tooManyTicksOffByOne(n) == FracGt(n, MaxTicks + 1)

\* the loop condition, numTicks > 20
tooManyTicks(n) == FracGt(n, MaxTicks)

\* 100.0 / numTicks, as a fraction; its den is 0 when numTicks is 0
tickGapPct(n) == Frac(100 * n.den, n.num)

\* a rule of document.styleSheets[0]: `selector { prop: value color pct% }`
Rule(selector, prop, value, color, pct) ==
    [selector |-> selector, prop |-> prop, value |-> value, color |-> color,
     pct |-> pct]

NoPct == Frac(0, 1)

\* CSSStyleSheet.insertRule(rule): the index defaults to 0
insertRule(rules, rule) == <<rule>> \o rules

\* lines 52-59: the two rules addCssGridMarks inserts
insertGridRules(rules, n) ==
    insertRule(
        insertRule(rules,
            Rule(".bar-container", "background-size", "", <<>>, tickGapPct(n))),
        Rule(".axis-gap", "max-width", "", <<>>, tickGapPct(n)))

\* line 60: the returned {numTicks, tickIntervalMs}, with the tick gap
TickPlan(taskTime, interval) ==
    [kind |-> "plan",
     numTicks |-> Frac(taskTime, interval),
     tickIntervalMs |-> interval,
     tickGapPct |-> tickGapPct(Frac(taskTime, interval))]

\* The mutation: the candidate interval doubles instead of growing by a minute.
nextTickIntervalDoubled(interval) == interval * 2

\* line 48: tickIntervalMs += 60 * 1000
nextTickInterval(interval) == interval + TickStepMs

RECURSIVE tickSearch(_, _)
\* lines 47-50: the loop, run to its end
tickSearch(taskTime, interval) ==
    IF tooManyTicks(Frac(taskTime, interval))
    THEN tickSearch(taskTime, nextTickInterval(interval))
    ELSE interval

\* lines 43-60, as one call
addCssGridMarks(taskTime) == TickPlan(taskTime, tickSearch(taskTime, TickStepMs))

NoRules == <<>>
NoPlan == [kind |-> "none"]

DurationInputs ==
    {h * (TickStepMs \div 2) + d : h \in (-2)..MaxHalfMinutes, d \in (-1)..1}

TickInit ==
    /\ pc = "tick_start"
    /\ taskTimeMs \in DurationInputs
    /\ tickIntervalMs = 0
    /\ numTicks = Frac(0, 1)
    /\ tickPlan = NoPlan
    /\ SafeIdle /\ FlattenIdle /\ ChartIdle

\* lines 44-45
TickStart ==
    /\ pc = "tick_start"
    /\ tickIntervalMs' = TickStepMs
    /\ numTicks' = Frac(taskTimeMs, TickStepMs)
    /\ pc' = "tick_loop"
    /\ UNCHANGED <<taskTimeMs, tickPlan, styleRules>>

\* lines 47-50, one iteration
TickLoop ==
    /\ pc = "tick_loop"
    /\ tooManyTicks(numTicks)
    /\ tickIntervalMs' = nextTickInterval(tickIntervalMs)
    /\ numTicks' = Frac(taskTimeMs, nextTickInterval(tickIntervalMs))
    /\ UNCHANGED <<pc, taskTimeMs, tickPlan, styleRules>>

\* lines 51-60: nothing in the function throws, whatever taskTimeMs is
TickReturn ==
    /\ pc = "tick_loop"
    /\ ~tooManyTicks(numTicks)
    /\ styleRules' = insertGridRules(styleRules, numTicks)
    /\ tickPlan' = TickPlan(taskTimeMs, tickIntervalMs)
    /\ pc' = "tick_done"
    /\ UNCHANGED <<taskTimeMs, tickIntervalMs, numTicks>>

-----------------------------------------------------------------------------
(* The input document's node-trees.  A node is [name, intervals, children]; *)
(* a build is [nodeRoot].  The trees of the model are all ordered forests   *)
(* of at most MaxNodes nodes; a node is named after its path from the root  *)
(* (the digits of the child indices), so names are unique in a document.    *)

RECURSIVE ForestShapes(_)
\* the ordered forests of exactly n nodes, as sequences of [children]
ForestShapes(n) ==
    IF n = 0 THEN {<<>>}
    ELSE UNION {{<<[children |-> kids]>> \o rest :
                    kids \in ForestShapes(k - 1), rest \in ForestShapes(n - k)} :
                k \in 1..n}

\* one interval record of a node
Interval(startMs, endMs, mode, colorId) ==
    [startTimeMs |-> startMs, endTimeMs |-> endMs, mode |-> mode,
     colorId |-> colorId, timeRangeRelativeToBuildStart |-> "0 - 1"]

RECURSIVE NameForest(_, _, _)
\* the forest of shapes, each node named by its path and given `intervals`
NameForest(shapes, path, intervals) ==
    [i \in 1..Len(shapes) |->
        LET name == Append(path, ToString(i - 1))
        IN [name |-> name,
            intervals |-> intervals,
            children |-> NameForest(shapes[i].children, name, intervals)]]

Builds(forest) == [i \in 1..Len(forest) |-> [nodeRoot |-> forest[i]]]

-----------------------------------------------------------------------------
(* getNodeList(builds)                                                     *)

\* The mutation: ids count from one.
myIDFromOne(acc) == Len(acc) + 1

\* line 28: var myID = nodes.length
myID(acc) == Len(acc)

\* The mutation: a child is told its parent only, not the ancestors above.
childParentIDsParentOnly(parentIDs, id) == <<id>>

\* line 33: [...parentIDs, myID]
childParentIDs(parentIDs, id) == Append(parentIDs, id)

RECURSIVE flattenNodes(_, _, _)
RECURSIVE forEachChild(_, _, _)
RECURSIVE forEachChildReversed(_, _, _)

\* The mutation: the children are visited last to first.
forEachChildReversed(acc, children, ids) ==
    IF children = <<>> THEN acc
    ELSE forEachChildReversed(
             flattenNodes(acc, children[Len(children)], ids),
             SubSeq(children, 1, Len(children) - 1), ids)

\* line 33: node.children.forEach(c => flattenNodes(c, ids)); acc is the
\* closure variable `nodes`, which every call appends to
forEachChild(acc, children, ids) ==
    IF children = <<>> THEN acc
    ELSE forEachChild(flattenNodes(acc, Head(children), ids),
                      Tail(children), ids)

\* lines 27-34
flattenNodes(acc, node, parentIDs) ==
    LET id == myID(acc)
        flat == [name |-> node.name,
                 intervals |-> node.intervals,
                 children |-> node.children,
                 id |-> id,
                 parentIDs |-> parentIDs,
                 hasChildren |-> Len(node.children) # 0]
    IN forEachChild(Append(acc, flat), node.children,
                    childParentIDs(parentIDs, id))

RECURSIVE forEachBuild(_, _)
\* line 36: builds.forEach(build => flattenNodes(build.nodeRoot, []))
forEachBuild(acc, bs) ==
    IF bs = <<>> THEN acc
    ELSE forEachBuild(flattenNodes(acc, Head(bs).nodeRoot, <<>>), Tail(bs))

\* lines 23-38
getNodeList(bs) == forEachBuild(<<>>, bs)

\* the intervals of the nodes where only the tree matters
OneInterval == <<Interval(0, 1, <<"R", "U", "N">>, "1")>>

BuildsInputs ==
    UNION {{Builds(NameForest(f, <<>>, OneInterval)) : f \in ForestShapes(n)} :
           n \in 0..MaxNodes}

FlattenInit ==
    /\ pc = "flatten"
    /\ builds \in BuildsInputs
    /\ nodes = <<>>
    /\ SafeIdle /\ TickIdle /\ ChartIdle

GetNodeList ==
    /\ pc = "flatten"
    /\ nodes' = getNodeList(builds)
    /\ pc' = "flatten_done"
    /\ UNCHANGED builds

-----------------------------------------------------------------------------
(* addCssColors(colorToId).  colorToId is the list of its [color, id]      *)
(* entries in key order; a colour is a sequence of characters.             *)

\* c.match(/#ffffff/i): c holds a # followed by six f or F
isWhite(c) ==
    \E i \in 1..(Len(c) - 6) :
        /\ c[i] = "#"
        /\ \A j \in 1..6 : c[i + j] \in {"f", "F"}

RECURSIVE insertColorRules(_, _)
\* lines 68-75
insertColorRules(rules, colorToId) ==
    IF colorToId = <<>> THEN rules
    ELSE LET c == Head(colorToId).color
             i == Head(colorToId).id
         IN insertColorRules(
                insertRule(rules,
                    IF isWhite(c)
                    THEN Rule(".c" \o i, "visibility", "hidden", <<>>, NoPct)
                    ELSE Rule(".c" \o i, "background", "", c, NoPct)),
                Tail(colorToId))

\* lines 63-77
addCssColors(rules, colorToId) ==
    insertRule(insertColorRules(rules, colorToId),
               Rule(".ctransparent", "visibility", "hidden", <<>>, NoPct))

-----------------------------------------------------------------------------
(* renderChart(data)                                                       *)

BuildNotStarted ==
    <<"[", "b", "u", "i", "l", "d", " ", "n", "o", "t", " ",
      "s", "t", "a", "r", "t", "e", "d", "]">>

\* The mutation: a node without intervals is given a start of its own
\* instead of failing the read of intervals[0].
throwsNever(node) == FALSE

\* line 145: node.intervals[0].startTimeMs throws a TypeError when
\* node.intervals is empty (intervals[0] is undefined)
throws(node) == Len(node.intervals) = 0

\* The mutation: the fake interval runs to the end of the first interval.
preBuildIntervalToEnd(d, node) ==
    [startTimeMs |-> d.taskStartTimeMs,
     endTimeMs |-> node.intervals[1].endTimeMs,
     mode |-> BuildNotStarted,
     colorId |-> "transparent",
     timeRangeRelativeToBuildStart |-> ""]

\* lines 143-149
preBuildInterval(d, node) ==
    [startTimeMs |-> d.taskStartTimeMs,
     endTimeMs |-> node.intervals[1].startTimeMs,
     mode |-> BuildNotStarted,
     colorId |-> "transparent",
     timeRangeRelativeToBuildStart |-> ""]

\* lines 152-153
pct(interval, taskTime) ==
    Frac((interval.endTimeMs - interval.startTimeMs) * 100, taskTime)

\* lines 154-158: one <div class="interval c..."> with its tooltip
intervalDiv(interval, taskTime) ==
    [classList |-> {"interval", "c" \o interval.colorId},
     maxWidthPct |-> pct(interval, taskTime),
     tooltip |-> safe(interval.mode),
     timeRange |-> interval.timeRangeRelativeToBuildStart]

\* lines 120-162: one <div class="tr ..."> of a node that has intervals
rowDiv(d, node) ==
    LET intervals == <<preBuildInterval(d, node)>> \o node.intervals
        taskTime == d.taskEndTimeMs - d.taskStartTimeMs
    IN [classList |-> {"tr"} \cup {"childOf" \o ToString(node.parentIDs[j]) :
                                     j \in 1..Len(node.parentIDs)},
        hasToggle |-> node.hasChildren,
        toggleArg |-> node.id,
        indent |-> Len(node.parentIDs) + 1,
        label |-> safe(node.name),
        bar |-> [j \in 1..Len(intervals) |-> intervalDiv(intervals[j], taskTime)]]

\* line 116: the rule a node's descendants collapse by
collapseRule(id) ==
    Rule(".collapse" \o ToString(id), "visibility", "collapse", <<>>, NoPct)

RECURSIVE insertCollapseRules(_, _, _)
\* line 116, for the first n nodes of the list
insertCollapseRules(rules, ns, n) ==
    IF n = 0 THEN rules
    ELSE insertRule(insertCollapseRules(rules, ns, n - 1), collapseRule(ns[n].id))

\* lines 179-186: the labels of the x-axis, one per i = 0, 1, ... < numTicks
axisLabels(plan) ==
    LET n == plan.numTicks
        count == IF n.num <= 0 THEN 0 ELSE (n.num + n.den - 1) \div n.den
    IN [i \in 1..count |-> ((i - 1) * plan.tickIntervalMs) \div TickStepMs]

\* lines 111, 193: the rows are collected in the local `html`, which a throw
\* abandons; the element keeps its current content
keptOnThrow(current, html) == current

\* the nodes.forEach of lines 113-163 stops at the first node that throws
throwing(ns) == {i \in 1..Len(ns) : throws(ns[i])}
firstThrowing(ns) == CHOOSE i \in throwing(ns) : \A j \in throwing(ns) : i <= j

-----------------------------------------------------------------------------
(* The documents of the model.  Times are TimeUnitMs apart from EpochMs;   *)
(* the chart runs from T(0) to T(MaxTime), and every interval lies in it.  *)

TimeUnitMs == 10 * TickStepMs
EpochMs == 100 * TimeUnitMs
T(k) == EpochMs + k * TimeUnitMs

Running == <<"R", "U", "N">>
ColorToId == <<[color |-> <<"#", "0", "0", "0", "0", "8", "b">>, id |-> "1"],
               [color |-> <<"#", "F", "f", "F", "f", "F", "f">>, id |-> "2"]>>
\* the colorIds of the intervals; "7" is no id of ColorToId
ColorIds == {"1", "7"}

RECURSIVE IntervalLists(_, _)
\* the lists of n intervals that start at T(from) or later, ordered and
\* non-overlapping (each starts no earlier than the one before it ends)
IntervalLists(n, from) ==
    IF n = 0 THEN {<<>>}
    ELSE UNION {{<<Interval(T(ab[1]), T(ab[2]), Running, c)>> \o rest :
                    c \in ColorIds, rest \in IntervalLists(n - 1, ab[2])} :
                ab \in {x \in (from..MaxTime) \X (from..MaxTime) : x[1] <= x[2]}}

FullInterval == <<Interval(T(0), T(MaxTime), Running, "1")>>

Document(bs) ==
    [title |-> <<"a", "&", "b">>,
     subtitle |-> <<"<", "1", ">">>,
     colorToId |-> ColorToId,
     taskStartTimeMs |-> T(0),
     taskEndTimeMs |-> T(MaxTime),
     builds |-> bs]

\* a root with one child
Pair(rootIntervals, childIntervals) ==
    <<[nodeRoot |->
          [name |-> <<"0">>, intervals |-> rootIntervals,
           children |-> <<[name |-> <<"0", "0">>, intervals |-> childIntervals,
                           children |-> <<>>]>>]]>>

AllIntervalLists == UNION {IntervalLists(n, 0) : n \in 0..MaxIntervals}

Documents ==
    {Document(Builds(NameForest(f, <<>>, FullInterval))) :
        f \in UNION {ForestShapes(n) : n \in 0..MaxNodes}}
    \cup {Document(Pair(l, FullInterval)) : l \in AllIntervalLists}
    \cup {Document(Pair(FullInterval, l)) : l \in AllIntervalLists}

Init ==
    /\ pc = "loaded"
    /\ data \in Documents
    /\ status = "none"
    /\ title = <<>>
    /\ subtitle = <<>>
    /\ perfchart = <<>>
    /\ axis = <<>>
    /\ styleRules = NoRules
    /\ toggles = {}
    /\ builds = data.builds
    /\ nodes = <<>>
    /\ SafeIdle /\ TickIdle

\* lines 88-193.  The style rules are inserted as the function goes; the
\* html is assigned only at the end, so a throw leaves it untouched.
RenderChart ==
    /\ pc = "loaded"
    /\ LET taskTime == data.taskEndTimeMs - data.taskStartTimeMs
           colored == addCssColors(styleRules, data.colorToId)
           plan == addCssGridMarks(taskTime)
           gridded == insertGridRules(colored, plan.numTicks)
           ns == getNodeList(data.builds)
       IN /\ nodes' = ns
          /\ IF throwing(ns) # {}
             THEN /\ styleRules' = insertCollapseRules(gridded, ns, firstThrowing(ns))
                  /\ status' = "TypeError"
                  /\ perfchart' = keptOnThrow(perfchart,
                         [i \in 1..(firstThrowing(ns) - 1) |-> rowDiv(data, ns[i])])
                  /\ UNCHANGED <<title, subtitle, axis>>
             ELSE /\ styleRules' = insertCollapseRules(gridded, ns, Len(ns))
                  /\ status' = "rendered"
                  /\ title' = safe(data.title)
                  /\ subtitle' = safe(data.subtitle)
                  /\ perfchart' = [i \in 1..Len(ns) |-> rowDiv(data, ns[i])]
                  /\ axis' = axisLabels(plan)
    /\ pc' = "done"
    /\ UNCHANGED <<data, builds, toggles>>

-----------------------------------------------------------------------------
(* toggleCollapse(id)                                                      *)

\* The mutation: the class is added, never removed.
toggleAddsOnly(classList, c) == classList \cup {c}

\* DOMTokenList.toggle
toggle(classList, c) ==
    IF c \in classList THEN classList \ {c} ELSE classList \cup {c}

\* lines 11-15
toggleCollapse(rows, id) ==
    [i \in 1..Len(rows) |->
        IF ("childOf" \o ToString(id)) \in rows[i].classList
        THEN [rows[i] EXCEPT !.classList = toggle(@, "collapse" \o ToString(id))]
        ELSE rows[i]]

\* the handler of a row's checkbox, or a call with any other row's id;
\* toggles records the ids it was called with an odd number of times
ToggleCollapse(id) ==
    /\ pc = "done"
    /\ status = "rendered"
    /\ perfchart' = toggleCollapse(perfchart, id)
    /\ toggles' = IF id \in toggles THEN toggles \ {id} ELSE toggles \cup {id}
    /\ UNCHANGED <<pc, data, builds, nodes, status, title, subtitle, axis,
                   styleRules>>

\* a row is hidden when a rule `visibility: collapse` selects one of its classes
hidden(row) ==
    \E r \in 1..Len(styleRules) :
        /\ styleRules[r].prop = "visibility"
        /\ styleRules[r].value = "collapse"
        /\ \E c \in row.classList : styleRules[r].selector = "." \o c

-----------------------------------------------------------------------------
(* Specifications.                                                         *)

SafeNext == Safe /\ UNCHANGED <<tickVars, flatVars, chartVars>>

SpecSafe == SafeInit /\ [][SafeNext]_vars

TickNext ==
    \/ TickStart /\ UNCHANGED <<safeVars, flatVars, pageVars>>
    \/ TickLoop /\ UNCHANGED <<safeVars, flatVars, pageVars>>
    \/ TickReturn /\ UNCHANGED <<safeVars, flatVars, pageVars>>

\* the script runs to its end: no step of the loop is postponed forever
SpecTicks == TickInit /\ [][TickNext]_vars /\ WF_vars(TickNext)

FlattenNext == GetNodeList /\ UNCHANGED <<safeVars, tickVars, chartVars>>

SpecFlatten == FlattenInit /\ [][FlattenNext]_vars

Next ==
    \/ RenderChart /\ UNCHANGED <<safeVars, tickVars>>
    \/ \E id \in 0..(Len(perfchart) - 1) :
           ToggleCollapse(id) /\ UNCHANGED <<safeVars, tickVars>>

Spec == Init /\ [][Next]_vars

-----------------------------------------------------------------------------
(* The claims.                                                             *)

Range(f) == {f[i] : i \in DOMAIN f}

\* C1: for every positive durationMs the tick planner terminates, and the
\* numTicks it returns (durationMs / tickIntervalMs) is never greater than 20.
C1_TicksTerminateAtMost20 ==
    /\ [](pc = "tick_done" /\ taskTimeMs > 0
            => /\ tickPlan.kind = "plan"
               /\ tickPlan.numTicks = Frac(taskTimeMs, tickPlan.tickIntervalMs)
               /\ tickPlan.numTicks.num <= MaxTicks * tickPlan.numTicks.den)
    /\ (taskTimeMs > 0 ~> pc = "tick_done")

\* a positive duration for which the loop ran at least twice
C1_Witness ==
    /\ pc = "tick_done"
    /\ taskTimeMs > 0
    /\ tickPlan.tickIntervalMs >= 3 * TickStepMs

\* C7: for durationMs = 0 and for every negative durationMs the tick planner
\* fails with InvalidDuration instead of returning a tick plan.
C7_NonPositiveDurationRejected ==
    pc = "tick_done" /\ taskTimeMs <= 0 =>
        /\ tickPlan.kind = "InvalidDuration"
        /\ styleRules = NoRules

Entity(c) ==
    CASE c = "&" -> AmpEntity
      [] c = "<" -> LtEntity
      [] c = ">" -> GtEntity
      [] c = "\"" -> QuotEntity
      [] c = "'" -> AposEntity
      [] OTHER -> <<c>>

Entities == {AmpEntity, LtEntity, GtEntity, QuotEntity, AposEntity}

StartsEntityAt(str, i) ==
    \E e \in Entities :
        /\ i + Len(e) - 1 <= Len(str)
        /\ SubSeq(str, i, i + Len(e) - 1) = e

\* C10: safe(s) holds none of < > " ', every & of it starts one of the five
\* entities, and it is s with each reserved character replaced by its entity
\* exactly once and every other character kept unchanged and in order.
C10_SafeEscapesOnce ==
    pc = "safe_done" =>
        /\ Range(escaped) \cap {"<", ">", "\"", "'"} = {}
        /\ \A i \in 1..Len(escaped) :
               escaped[i] = "&" => StartsEntityAt(escaped, i)
        /\ escaped = Concat([i \in 1..Len(s) |-> Entity(s[i])])

\* an argument with an ampersand that already looks like an entity, and a <
C10_Witness ==
    /\ pc = "safe_done"
    /\ s = <<"&", ";", "<">>
    /\ escaped = AmpEntity \o <<";">> \o LtEntity

RECURSIVE Size(_)
\* the number of nodes of the tree under node
Size(node) ==
    1 + SumSeq([i \in 1..Len(node.children) |-> Size(node.children[i])])

\* the number of nodes of the first n trees of a list of nodes
SizeOfFirst(ns, n) == SumSeq([i \in 1..n |-> Size(ns[i])])

Roots(bs) == [i \in 1..Len(bs) |-> bs[i].nodeRoot]

RECURSIVE NamesOf(_)
\* the names of the nodes of the tree under node
NamesOf(node) ==
    {node.name} \cup UNION {NamesOf(node.children[i]) :
                               i \in 1..Len(node.children)}

\* the row of the returned list that holds the node with this id
Row(id) == nodes[id + 1]

\* C2: flattening root trees of N nodes in total returns N flattened nodes,
\* one per input node; the ids are pairwise distinct, cover 0..N-1, each is
\* the node's index in the returned list, and they continue from one root
\* tree to the next instead of restarting.
C2_FlattenIsBijection ==
    pc = "flatten_done" =>
        LET N == SizeOfFirst(Roots(builds), Len(builds))
        IN /\ Len(nodes) = N
           /\ \A i \in 1..Len(nodes) : nodes[i].id = i - 1
           /\ {nodes[i].id : i \in 1..Len(nodes)} = 0..(N - 1)
           /\ \A i, j \in 1..Len(nodes) :
                  i # j => /\ nodes[i].id # nodes[j].id
                           /\ nodes[i].name # nodes[j].name
           /\ {nodes[i].name : i \in 1..Len(nodes)}
                  = UNION {NamesOf(builds[b].nodeRoot) : b \in 1..Len(builds)}
           /\ \A b \in 1..Len(builds) :
                  LET first == SizeOfFirst(Roots(builds), b - 1)
                  IN /\ Row(first).name = builds[b].nodeRoot.name
                     /\ Row(first).id = first
                     /\ Row(first).intervals = builds[b].nodeRoot.intervals

\* two root trees, the first of more than one node
C2_Witness ==
    /\ pc = "flatten_done"
    /\ Len(builds) = 2
    /\ Len(builds[1].nodeRoot.children) > 0
    /\ Len(nodes) >= 4

\* C3: the parentIDs of a flattened node are the ids of its ancestors in
\* root-to-parent order (empty for a root; else the parent's parentIDs with
\* the parent's id appended), so its id is greater than each of them.
\* A node's ancestors are the nodes named by the proper prefixes of its name.
C3_ParentIDsAreAncestors ==
    pc = "flatten_done" =>
        \A i \in 1..Len(nodes) :
            LET row == nodes[i]
                depth == Len(row.name) - 1
            IN /\ Len(row.parentIDs) = depth
               /\ \A d \in 1..depth :
                      /\ row.parentIDs[d] \in 0..(Len(nodes) - 1)
                      /\ Row(row.parentIDs[d]).name = SubSeq(row.name, 1, d)
                      /\ row.id > row.parentIDs[d]
               /\ depth > 0 =>
                      LET parent == Row(row.parentIDs[depth])
                      IN row.parentIDs = Append(parent.parentIDs, parent.id)

\* a node with a grandparent, in a second root tree
C3_Witness ==
    /\ pc = "flatten_done"
    /\ \E i \in 1..Len(nodes) :
           /\ Len(nodes[i].parentIDs) = 2
           /\ nodes[i].parentIDs[1] > 0

\* C4: the rows whose parentIDs contain k are the contiguous block right
\* after row k, and the subtrees of k's children follow one another in that
\* block in the order of k's children list.
C4_SubtreesAreContiguousBlocks ==
    pc = "flatten_done" =>
        \A k \in 0..(Len(nodes) - 1) :
            LET row == Row(k)
            IN /\ {i \in 0..(Len(nodes) - 1) :
                      \E d \in 1..Len(Row(i).parentIDs) : Row(i).parentIDs[d] = k}
                      = (k + 1)..(k + Size(row) - 1)
               /\ \A c \in 1..Len(row.children) :
                      LET at == k + 1 + SizeOfFirst(row.children, c - 1)
                      IN /\ Row(at).name = row.children[c].name
                         /\ Row(at).children = row.children[c].children

\* a node with two children, the first with a child of its own, and a root
\* tree after it
C4_Witness ==
    /\ pc = "flatten_done"
    /\ Len(builds) = 2
    /\ \E k \in 0..(Len(nodes) - 1) :
           /\ Len(Row(k).children) = 2
           /\ Len(Row(k).children[1].children) = 1

\* the data-model invariants of a node's intervals: non-empty, each ending no
\* earlier than it starts, ordered, non-overlapping, none before the chart
validIntervals(d, ivs) ==
    /\ Len(ivs) > 0
    /\ \A j \in 1..Len(ivs) : ivs[j].startTimeMs <= ivs[j].endTimeMs
    /\ \A j \in 1..(Len(ivs) - 1) : ivs[j].endTimeMs <= ivs[j + 1].startTimeMs
    /\ ivs[1].startTimeMs >= d.taskStartTimeMs

\* the time between consecutive intervals that no interval covers
gaps(ivs) ==
    SumSeq([j \in 1..(Len(ivs) - 1) |-> ivs[j + 1].startTimeMs - ivs[j].endTimeMs])

\* the sum of the widths of a row, as the numerator of a fraction of
\* taskTimeMs: every width is a fraction over taskTimeMs
widthSum(row) == SumSeq([j \in 1..Len(row.bar) |-> row.bar[j].maxWidthPct.num])

taskTimeOf(d) == d.taskEndTimeMs - d.taskStartTimeMs

\* C5 (as written): for every node whose intervals satisfy the data-model
\* invariants, the widths of its row sum to 100% of taskTimeMs when the final
\* interval ends at taskEndTimeMs, and to less than 100% otherwise.
C5_WidthsSumTo100 ==
    pc = "done" /\ status = "rendered" =>
        \A i \in 1..Len(perfchart) :
            LET ivs == nodes[i].intervals
            IN validIntervals(data, ivs) =>
                   IF ivs[Len(ivs)].endTimeMs = data.taskEndTimeMs
                   THEN widthSum(perfchart[i]) = 100 * taskTimeOf(data)
                   ELSE widthSum(perfchart[i]) < 100 * taskTimeOf(data)

\* C5 (amended): the row holds the leading interval and every real one, each
\* width a fraction of taskTimeMs, and the spans sum to the final end minus
\* taskStartTimeMs minus the gaps between consecutive intervals.  So the
\* widths sum to 100% when the intervals are contiguous and the final one
\* ends at taskEndTimeMs, and to less than 100% when the final one ends
\* before taskEndTimeMs, or ends at it with a gap somewhere before.
C5_WidthsSumToCoveredTime ==
    pc = "done" /\ status = "rendered" =>
        \A i \in 1..Len(perfchart) :
            LET ivs == nodes[i].intervals
                last == ivs[Len(ivs)].endTimeMs
                sum == widthSum(perfchart[i])
                full == 100 * taskTimeOf(data)
            IN validIntervals(data, ivs) =>
                   /\ Len(perfchart[i].bar) = Len(ivs) + 1
                   /\ \A j \in 1..Len(perfchart[i].bar) :
                          perfchart[i].bar[j].maxWidthPct.den = taskTimeOf(data)
                   /\ sum = 100 * (last - data.taskStartTimeMs - gaps(ivs))
                   /\ gaps(ivs) = 0 /\ last = data.taskEndTimeMs => sum = full
                   /\ last < data.taskEndTimeMs => sum < full
                   /\ gaps(ivs) > 0 /\ last = data.taskEndTimeMs => sum < full

\* a node that starts late, with two contiguous intervals up to the end
C5_Witness ==
    /\ pc = "done"
    /\ status = "rendered"
    /\ \E i \in 1..Len(perfchart) :
           LET ivs == nodes[i].intervals
           IN /\ Len(ivs) = 2
              /\ ivs[1].startTimeMs > data.taskStartTimeMs
              /\ ivs[1].endTimeMs > ivs[1].startTimeMs
              /\ ivs[2].startTimeMs = ivs[1].endTimeMs
              /\ ivs[2].endTimeMs = data.taskEndTimeMs
              /\ widthSum(perfchart[i]) = 100 * taskTimeOf(data)

\* the ids in a row's parentIDs that were toggled an odd number of times
collapsedAncestors(i) ==
    {nodes[i].parentIDs[d] : d \in 1..Len(nodes[i].parentIDs)} \cap toggles

\* C6: after any sequence of toggleCollapse calls on a rendered chart, a row
\* is hidden exactly when some id in its parentIDs was toggled an odd number
\* of times; it carries one collapse class per such id and no other.
C6_HiddenIffOddToggledAncestor ==
    pc = "done" /\ status = "rendered" =>
        \A i \in 1..Len(perfchart) :
            /\ hidden(perfchart[i]) <=> collapsedAncestors(i) # {}
            /\ {c \in perfchart[i].classList :
                   \E k \in 0..(Len(perfchart) - 1) : c = "collapse" \o ToString(k)}
                   = {"collapse" \o ToString(k) : k \in collapsedAncestors(i)}

\* a row hidden through its parent alone, its grandparent expanded, beside
\* a row of the same grandparent that is shown
C6_Witness ==
    /\ pc = "done"
    /\ status = "rendered"
    /\ \E i, j \in 1..Len(perfchart) :
           /\ Len(nodes[i].parentIDs) = 2
           /\ toggles = {nodes[i].parentIDs[2]}
           /\ hidden(perfchart[i])
           /\ nodes[j].parentIDs = <<nodes[i].parentIDs[1]>>
           /\ ~hidden(perfchart[j])

RECURSIVE hasEmptyIntervals(_)
\* some node of the tree under node has no intervals
hasEmptyIntervals(node) ==
    \/ node.intervals = <<>>
    \/ \E c \in 1..Len(node.children) : hasEmptyIntervals(node.children[c])

someEmptyIntervals(d) ==
    \E b \in 1..Len(d.builds) : hasEmptyIntervals(d.builds[b].nodeRoot)

selectors == {styleRules[r].selector : r \in 1..Len(styleRules)}

\* C8: when a node has an empty intervals list, renderChart fails as a whole
\* with EmptyIntervalList and leaves the view as it was before the call: no
\* rows, title or subtitle are written, and no style rule of the failed
\* render remains installed.
C8_FailedRenderLeavesNothing ==
    pc = "done" /\ someEmptyIntervals(data) =>
        /\ status = "EmptyIntervalList"
        /\ title = <<>> /\ subtitle = <<>> /\ perfchart = <<>> /\ axis = <<>>
        /\ styleRules = NoRules

definedColorIds(d) == {d.colorToId[c].id : c \in 1..Len(d.colorToId)}

RECURSIVE hasUnknownColor(_, _)
\* some interval of the tree under node has a colorId that is no id of
\* colorToId and not the transparent one
hasUnknownColor(d, node) ==
    \/ \E j \in 1..Len(node.intervals) :
           node.intervals[j].colorId \notin definedColorIds(d) \cup {"transparent"}
    \/ \E c \in 1..Len(node.children) : hasUnknownColor(d, node.children[c])

someUnknownColor(d) ==
    \E b \in 1..Len(d.builds) : hasUnknownColor(d, d.builds[b].nodeRoot)

\* C9: when an interval carries a colorId that is no id of colorToId (and is
\* not the transparent one), renderChart fails with MalformedColorId and
\* emits no row whose interval references a style that was never defined.
C9_UnknownColorRejected ==
    pc = "done" =>
        /\ someUnknownColor(data) => status = "MalformedColorId"
        /\ \A i \in 1..Len(perfchart) :
               \A j \in 1..Len(perfchart[i].bar) :
                   \A c \in perfchart[i].bar[j].classList \ {"interval"} :
                       ("." \o c) \in selectors

\* C11: for every positive durationMs the returned tickIntervalMs is the
\* smallest positive whole multiple of 60,000 ms for which
\* durationMs / tickIntervalMs <= 20 (60,000 when durationMs <= 1,200,000);
\* for durationMs = 3,600,000 it is 180,000, with numTicks = 20.
C11_SmallestMinuteMultiple ==
    pc = "tick_done" /\ taskTimeMs > 0 =>
        LET interval == tickPlan.tickIntervalMs
            minutes == interval \div TickStepMs
        IN /\ interval = minutes * TickStepMs
           /\ minutes >= 1
           /\ taskTimeMs <= MaxTicks * interval
           /\ \A m \in 1..(minutes - 1) : taskTimeMs > MaxTicks * (m * TickStepMs)
           /\ taskTimeMs <= 1200000 => interval = 60000
           /\ taskTimeMs = 3600000 =>
                  /\ interval = 180000
                  /\ tickPlan.numTicks = Frac(3600000, 180000)
                  /\ tickPlan.numTicks.num = 20 * tickPlan.numTicks.den

\* the 60-minute chart, planned
C11_Witness ==
    /\ pc = "tick_done"
    /\ taskTimeMs = 3600000
    /\ tickPlan.tickIntervalMs = 180000

====
